---- MODULE Spec2Model ----
(***************************************************************************)
(* Coastal Anarchy forum moderation bot (src/main.py).                     *)
(*                                                                         *)
(* The model follows main(): credential check, initial scan, then the      *)
(* endless check_feed / sleep loop.  Text is modelled as sequences of      *)
(* one-character strings so that splitting, stripping, lower-casing and    *)
(* the content[:100] truncation are computed as Python computes them.      *)
(***************************************************************************)
EXTENDS Integers, Sequences, FiniteSets, TLC

(***************************************************************************)
(* Bounds of the model.                                                    *)
(***************************************************************************)
MaxCycles == 2
MaxNewPosts == 1
MaxFaults == 1

(***************************************************************************)
(* Program constants.                                                      *)
(***************************************************************************)
SnippetLen == 100
MinCellLen == 20

PROFANITY_LIST ==
  << <<"f","u","c","k">>, <<"s","h","i","t">>, <<"b","i","t","c","h">>,
     <<"a","s","s">>, <<"a","s","s","h","o","l","e">>, <<"d","a","m","n">>,
     <<"c","r","a","p">>, <<"b","a","s","t","a","r","d">>, <<"d","i","c","k">>,
     <<"p","i","s","s">>, <<"c","u","n","t">>, <<"f","a","g","g","o","t">>,
     <<"r","e","t","a","r","d">> >>

PostBy == <<"P","o","s","t"," ","b","y">>
On == <<"o","n">>
BackToTop == <<"B","a","c","k"," ","t","o"," ","T","o","p">>
Unknown == <<"U","n","k","n","o","w","n">>
GroqError == <<"[","E","r","r","o","r"," ","c","o","n","t","a","c","t","i","n","g"," ","G","r","o","q","]">>
GroqVerdict == <<"v","e","r","d","i","c","t">>

(***************************************************************************)
(* Python string primitives.                                               *)
(***************************************************************************)
Upper == <<"A","B","C","D","E","F","G","H","I","J","K","L","M","N","O","P","Q","R","S","T","U","V","W","X","Y","Z">>
Lower == <<"a","b","c","d","e","f","g","h","i","j","k","l","m","n","o","p","q","r","s","t","u","v","w","x","y","z">>

LowerChar(c) ==
  IF \E i \in 1..Len(Upper) : Upper[i] = c
    THEN Lower[CHOOSE i \in 1..Len(Upper) : Upper[i] = c]
    ELSE c

\* str.lower()
ToLower(s) == [i \in 1..Len(s) |-> LowerChar(s[i])]

\* sub occurs in s at position i
OccursAt(sub, s, i) ==
  /\ i >= 1
  /\ i + Len(sub) - 1 <= Len(s)
  /\ \A j \in 1..Len(sub) : s[i + j - 1] = sub[j]

\* Python's  sub in s
Contains(sub, s) == \E i \in 1..Len(s) : OccursAt(sub, s, i)

\* position of the first occurrence of sub in s at or after from, 0 if none
FindFrom(sub, s, from) ==
  IF \E i \in from..Len(s) : OccursAt(sub, s, i)
    THEN CHOOSE i \in from..Len(s) :
           /\ OccursAt(sub, s, i)
           /\ \A k \in from..(i - 1) : ~OccursAt(sub, s, k)
    ELSE 0

\* s.split(sep)[0]
SplitHead(s, sep) ==
  LET p == FindFrom(sep, s, 1)
  IN IF p = 0 THEN s ELSE SubSeq(s, 1, p - 1)

\* s.split(sep)[1], for s that contains sep
SplitSecond(s, sep) ==
  LET p == FindFrom(sep, s, 1)
      rest == SubSeq(s, p + Len(sep), Len(s))
  IN SplitHead(rest, sep)

IsSpace(c) == c = " "

\* str.strip()
Strip(s) ==
  IF \A i \in 1..Len(s) : IsSpace(s[i])
    THEN << >>
    ELSE LET a == CHOOSE i \in 1..Len(s) :
                    ~IsSpace(s[i]) /\ \A k \in 1..(i - 1) : IsSpace(s[k])
             b == CHOOSE i \in 1..Len(s) :
                    ~IsSpace(s[i]) /\ \A k \in (i + 1)..Len(s) : IsSpace(s[k])
         IN SubSeq(s, a, b)

\* content[:100]
Snippet(content) ==
  SubSeq(content, 1, IF Len(content) < SnippetLen THEN Len(content) ELSE SnippetLen)

(***************************************************************************)
(* contains_profanity                                                      *)
(***************************************************************************)
\* mutant: the text is not lowered before the search
contains_profanity_CaseSensitive(text) ==
  \E w \in 1..Len(PROFANITY_LIST) : Contains(PROFANITY_LIST[w], text)

contains_profanity(text) ==
  LET text_lower == ToLower(text)
  IN \E w \in 1..Len(PROFANITY_LIST) : Contains(PROFANITY_LIST[w], text_lower)

(***************************************************************************)
(* scrape_thread, the part after a successful fetch: one post per table    *)
(* cell that is long enough and carries the "Post by" header.  cells is    *)
(* the sequence of td texts of the page, in document order.                *)
(***************************************************************************)
\* author stays "Unknown" when text.split("Post by")[1] raises
CellAuthor(text) ==
  IF Contains(PostBy, text)
    THEN Strip(SplitHead(SplitSecond(text, PostBy), On))
    ELSE Unknown

CellContent(text) ==
  IF Contains(BackToTop, text) THEN Strip(SplitSecond(text, BackToTop)) ELSE text

IsPostCell(text) ==
  /\ Len(text) >= MinCellLen
  /\ Contains(PostBy, text)
  /\ CellContent(text) # << >>

RECURSIVE ExtractPosts(_)
ExtractPosts(cells) ==
  IF cells = << >> THEN << >>
  ELSE LET text == Head(cells)
           rest == ExtractPosts(Tail(cells))
       IN IF IsPostCell(text)
            THEN << [author |-> CellAuthor(text), content |-> CellContent(text)] >> \o rest
            ELSE rest

(***************************************************************************)
(* The forum (upstream).  A thread page is a navigation cell followed by   *)
(* one table cell per post; the cells come from a small pool.              *)
(***************************************************************************)
Links == {"t1", "t2"}

HdrAnn == <<"P","o","s","t"," ","b","y"," ","a","n","n"," ","o","n"," ","J","a","n"," ","1"," ","B","a","c","k"," ","t","o"," ","T","o","p"," ">>
HdrBob == <<"P","o","s","t"," ","b","y"," ","b","o","b"," ","o","n"," ","J","a","n"," ","2"," ","B","a","c","k"," ","t","o"," ","T","o","p"," ">>
BodyRude == <<"y","o","u"," ","a","r","e"," ","a","n"," ","A","s","s">>
BodyNice == <<"h","a","v","e"," ","a"," ","n","i","c","e"," ","d","a","y">>
TailOk == <<" ","o","k">>
TailDamn == <<" ","d","a","m","n">>
NavCell == <<"H","o","m","e"," ","H","e","l","p"," ","S","e","a","r","c","h">>
Pad == [i \in 1..SnippetLen |-> "x"]

CellText(c) ==
  CASE c = "rude" -> HdrAnn \o BodyRude
    [] c = "nice" -> HdrBob \o BodyNice
    [] c = "long_ok" -> HdrAnn \o Pad \o TailOk
    [] c = "long_damn" -> HdrAnn \o Pad \o TailDamn

\* the td texts of a thread page holding the cells cs
Page(cs) == <<NavCell>> \o [i \in 1..Len(cs) |-> CellText(cs[i])]

\* the posts that may arrive while the bot runs: a long flagged reply in t1,
\* a short flagged post in t2
Arrivals == { [link |-> "t1", cell |-> "long_damn"], [link |-> "t2", cell |-> "rude"] }

\* the forum at process start: empty; one thread; two threads, the second
\* holding the same post twice
InitUpstreams ==
  { [listing |-> << >>, threads |-> [t \in Links |-> << >>]],
    [listing |-> <<"t1">>,
     threads |-> [t \in Links |-> IF t = "t1" THEN <<"long_ok">> ELSE << >>]],
    [listing |-> <<"t1", "t2">>,
     threads |-> [t \in Links |-> IF t = "t1" THEN <<"rude">> ELSE <<"nice", "nice">>]] }

Range(f) == {f[i] : i \in DOMAIN f}

VARIABLES
  creds,       \* [webhook, key]: is each credential set in the environment
  listing,     \* upstream: links the feed lists, in feed order
  threads,     \* upstream: link -> cells of the thread, oldest first
  newPosts,    \* upstream: posts added since process start
  faults,      \* environment: external calls that have failed so far
  seen_posts,  \* the global set of fingerprints
  pc,          \* position in main / check_feed; "halted" after main returned,
               \* "crashed" after an exception left main
  cycle,       \* number of the check_feed call in progress, 0 in the initial scan
  feed,        \* feed.entries of the current parse (links)
  idx,         \* position of the entry loop in feed
  posts,       \* posts returned by scrape_thread for the current entry
  pidx,        \* position of the post loop in posts
  summary,     \* bullying_summary of the post being escalated
  gateLog,     \* history: novelty tests made by check_feed
  groqLog,     \* history: ask_groq calls
  alertLog,    \* history: send_discord_report calls
  fetchLog,    \* history: feed parses and thread fetches
  pre,         \* history: the upstream at process start
  chg,         \* history: cycles during which the upstream changed
  soup,        \* scrape_thread: the parsed page, a sequence of table rows
  scraped,     \* scrape_thread: the list it returns for soup
  input_text,  \* contains_profanity: its argument
  verdict      \* contains_profanity: its result

vars == <<creds, listing, threads, newPosts, faults, seen_posts, pc, cycle, feed, idx,
          posts, pidx, summary, gateLog, groqLog, alertLog, fetchLog, pre, chg,
          soup, scraped, input_text, verdict>>

\* the argument and result of the functions exercised on their own
pure == <<soup, scraped, input_text, verdict>>

upstream == <<listing, threads, newPosts, chg>>
locals == <<feed, idx, posts, pidx, summary>>
history == <<gateLog, groqLog, alertLog, fetchLog>>

FeedOutcomes == {"ok", "raise", "bozo"}

\* scrape_thread: the page is fetched and parsed; requests.get raises; or the
\* page is fetched and BeautifulSoup rejects its markup
ScrapeOutcomes == {"ok", "fetch_error", "parse_error"}

\* an external call may fail while the fault budget lasts
MayFail == faults < MaxFaults
Fault(failed) == faults' = IF failed THEN faults + 1 ELSE faults

(***************************************************************************)
(* Pieces of check_feed and main.                                          *)
(***************************************************************************)
\* fingerprint = (link, author, content[:100])
Fingerprint(link, post) == <<link, post.author, Snippet(post.content)>>

\* mutant: the membership test always fails
IsSeen_Never(fp, seen) == FALSE

\* fingerprint in seen_posts
IsSeen(fp, seen) == fp \in seen

\* mutant: the set is overwritten, seen_posts = {fingerprint}
MarkSeen_Replaces(seen, fp) == {fp}

\* mutant: the fingerprint is not recorded
MarkSeen_Forgets(seen, fp) == seen

\* seen_posts.add(fingerprint)
MarkSeen(seen, fp) == seen \cup {fp}

\* mutant: the fetch error is ignored and the page is read anyway
scrape_thread_IgnoresError(cells, ok) == ExtractPosts(Page(cells))

\* scrape_thread(link): [] when the fetch fails, else the posts of the page
scrape_thread(cells, ok) == IF ok THEN ExtractPosts(Page(cells)) ELSE << >>

\* where check_feed continues after scrape_thread: the fetch is inside a
\* try, the parse is not, and neither check_feed nor the while loop of main
\* catches what scrape_thread raises
AfterScrape(out) == IF out = "parse_error" THEN "crashed" ELSE "post"

\* where the initial scan continues after scrape_thread: its try block
\* catches what scrape_thread raises and the scan is given up
AfterScanScrape(out) == IF out = "parse_error" THEN "feed" ELSE "boot_entry"

\* feedparser.parse(RSS_FEED_URL).entries when nothing is raised
FeedEntries(lst, outcome) == IF outcome = "ok" THEN lst ELSE << >>

\* mutant: the initial scan counts the posts but records nothing
ScanThread_Forgets(seen, link, ps) == seen

\* mutant: the initial scan keys a post by its whole content
ScanFingerprint_WholeContent(link, post) == <<link, post.author, post.content>>

\* the fingerprint the initial scan builds
ScanFingerprint(link, post) == <<link, post.author, Snippet(post.content)>>

\* the initial scan's inner loop over the posts of one entry
ScanThread(seen, link, ps) == seen \cup {ScanFingerprint(link, ps[i]) : i \in 1..Len(ps)}

\* mutant: the novelty test is skipped, every flagged post is escalated
Escalates_NoGate(old, flagged) == flagged

\* the two tests of check_feed's post loop: not seen before, and flagged
Escalates(old, flagged) == ~old /\ flagged

\* ask_groq: the model's answer, or the error placeholder
ask_groq(ok) == IF ok THEN GroqVerdict ELSE GroqError

\* mutant: ask_groq lets the error escape and check_feed ends
AfterGroq_Aborts(ok) == IF ok THEN "discord" ELSE "sleep"

\* where check_feed continues after ask_groq returned
AfterGroq(ok) == "discord"

\* mutant: a failed delivery forgets the post so that it is retried
AfterReport_Retries(seen, fp, ok) == IF ok THEN seen ELSE seen \ {fp}

\* seen_posts after send_discord_report: a failure is printed, nothing else
AfterReport(seen, fp, ok) == seen

\* mutant: no try/except around the parse, the error ends the process
AfterParse_Uncaught(outcome) == IF outcome = "raise" THEN "halted" ELSE "entry"

\* where check_feed continues after feedparser.parse
AfterParse(outcome) == IF outcome = "raise" THEN "sleep" ELSE "entry"

CredsOk(c) == c.webhook /\ c.key

Init ==
  /\ creds \in [webhook : BOOLEAN, key : BOOLEAN]
  /\ \E u \in InitUpstreams : listing = u.listing /\ threads = u.threads
  /\ newPosts = 0
  /\ faults = 0
  /\ seen_posts = {}
  /\ pc = "start"
  /\ cycle = 0
  /\ feed = << >>
  /\ idx = 1
  /\ posts = << >>
  /\ pidx = 1
  /\ summary = << >>
  /\ gateLog = << >>
  /\ groqLog = << >>
  /\ alertLog = << >>
  /\ fetchLog = << >>
  /\ pre = [listing |-> listing, threads |-> threads]
  /\ chg = {}
  /\ soup = << >>
  /\ scraped = << >>
  /\ input_text = << >>
  /\ verdict = FALSE

(***************************************************************************)
(* main                                                                    *)
(***************************************************************************)
\* main: the credential check
Main_CheckCreds ==
  /\ pc = "start"
  /\ pc' = IF CredsOk(creds) THEN "boot_feed" ELSE "halted"
  /\ UNCHANGED <<pure, creds, faults, upstream, seen_posts, cycle, locals, history, pre>>

\* main: the initial scan parses the feed
InitialScan_Parse ==
  /\ pc = "boot_feed"
  /\ \E outcome \in FeedOutcomes :
       /\ outcome # "ok" => MayFail
       /\ Fault(outcome # "ok")
       /\ feed' = FeedEntries(listing, outcome)
       /\ pc' = IF outcome = "raise" THEN "feed" ELSE "boot_entry"
       /\ fetchLog' = Append(fetchLog, [what |-> "feed", ok |-> outcome = "ok",
                                        parsed |-> outcome = "ok", cycle |-> cycle])
  /\ idx' = 1
  /\ UNCHANGED <<pure, creds, upstream, seen_posts, cycle, posts, pidx, summary,
                 gateLog, groqLog, alertLog, pre>>

\* main: the initial scan scrapes one entry and records all its posts
InitialScan_Entry ==
  /\ pc = "boot_entry"
  /\ idx <= Len(feed)
  /\ \E out \in ScrapeOutcomes :
       LET link == feed[idx]
           ps == scrape_thread(threads[link], out # "fetch_error")
       IN /\ out # "ok" => MayFail
          /\ Fault(out # "ok")
          /\ IF out = "parse_error"
               THEN UNCHANGED <<posts, seen_posts, idx>>
               ELSE /\ posts' = ps
                    /\ seen_posts' = ScanThread(seen_posts, link, ps)
                    /\ idx' = idx + 1
          /\ pc' = AfterScanScrape(out)
          /\ fetchLog' = Append(fetchLog, [what |-> link, ok |-> out # "fetch_error",
                                           parsed |-> out = "ok", cycle |-> cycle])
  /\ UNCHANGED <<pure, creds, upstream, cycle, feed, pidx, summary,
                 gateLog, groqLog, alertLog, pre>>

\* main: the initial scan is over, the polling loop begins
InitialScan_Done ==
  /\ pc = "boot_entry"
  /\ idx > Len(feed)
  /\ pc' = "feed"
  /\ UNCHANGED <<pure, creds, faults, upstream, seen_posts, cycle, locals, history, pre>>

(***************************************************************************)
(* check_feed                                                              *)
(***************************************************************************)
\* check_feed: parse the feed; a raised error ends the call
CheckFeed_Parse ==
  /\ pc = "feed"
  /\ cycle < MaxCycles
  /\ cycle' = cycle + 1
  /\ \E outcome \in FeedOutcomes :
       /\ outcome # "ok" => MayFail
       /\ Fault(outcome # "ok")
       /\ feed' = FeedEntries(listing, outcome)
       /\ pc' = AfterParse(outcome)
       /\ fetchLog' = Append(fetchLog, [what |-> "feed", ok |-> outcome = "ok",
                                        parsed |-> outcome = "ok", cycle |-> cycle'])
  /\ idx' = 1
  /\ UNCHANGED <<pure, creds, upstream, seen_posts, posts, pidx, summary,
                 gateLog, groqLog, alertLog, pre>>

\* check_feed: scrape the next entry of the feed
CheckFeed_Entry ==
  /\ pc = "entry"
  /\ idx <= Len(feed)
  /\ \E out \in ScrapeOutcomes :
       /\ out # "ok" => MayFail
       /\ Fault(out # "ok")
       /\ IF out = "parse_error"
            THEN UNCHANGED <<posts, pidx>>
            ELSE /\ posts' = scrape_thread(threads[feed[idx]], out # "fetch_error")
                 /\ pidx' = 1
       /\ pc' = AfterScrape(out)
       /\ fetchLog' = Append(fetchLog, [what |-> feed[idx], ok |-> out # "fetch_error",
                                        parsed |-> out = "ok", cycle |-> cycle])
  /\ UNCHANGED <<pure, creds, upstream, seen_posts, cycle, feed, idx, summary,
                 gateLog, groqLog, alertLog, pre>>

\* check_feed: the entry loop is exhausted, the call returns
CheckFeed_Return ==
  /\ pc = "entry"
  /\ idx > Len(feed)
  /\ pc' = "sleep"
  /\ UNCHANGED <<pure, creds, faults, upstream, seen_posts, cycle, locals, history, pre>>

\* check_feed: the novelty test and the profanity filter for one post
CheckFeed_Post ==
  /\ pc = "post"
  /\ pidx <= Len(posts)
  /\ LET post == posts[pidx]
         fp == Fingerprint(feed[idx], post)
         old == IsSeen(fp, seen_posts)
         flagged == contains_profanity(post.content)
     IN /\ gateLog' = Append(gateLog, [key |-> fp, had |-> fp \in seen_posts, new |-> ~old,
                                       flagged |-> flagged, cycle |-> cycle])
        /\ seen_posts' = IF old THEN seen_posts ELSE MarkSeen(seen_posts, fp)
        /\ IF Escalates(old, flagged)
             THEN pc' = "groq" /\ pidx' = pidx
             ELSE pc' = "post" /\ pidx' = pidx + 1
  /\ UNCHANGED <<pure, creds, faults, upstream, cycle, feed, idx, posts, summary,
                 groqLog, alertLog, fetchLog, pre>>

\* check_feed: the post loop is exhausted, on to the next entry
CheckFeed_NextEntry ==
  /\ pc = "post"
  /\ pidx > Len(posts)
  /\ idx' = idx + 1
  /\ pc' = "entry"
  /\ UNCHANGED <<pure, creds, faults, upstream, seen_posts, cycle, feed, posts, pidx, summary,
                 history, pre>>

\* check_feed: bullying_summary = ask_groq(content, author)
AskGroq ==
  /\ pc = "groq"
  /\ \E ok \in BOOLEAN :
       /\ ~ok => MayFail
       /\ Fault(~ok)
       /\ summary' = ask_groq(ok)
       /\ pc' = AfterGroq(ok)
       /\ groqLog' = Append(groqLog, [key |-> Fingerprint(feed[idx], posts[pidx]),
                                      ok |-> ok, cycle |-> cycle])
  /\ UNCHANGED <<pure, creds, upstream, seen_posts, cycle, feed, idx, posts, pidx,
                 gateLog, alertLog, fetchLog, pre>>

\* check_feed: send_discord_report(...); a failed delivery is only printed
SendDiscordReport ==
  /\ pc = "discord"
  /\ \E ok \in BOOLEAN :
       /\ ~ok => MayFail
       /\ Fault(~ok)
       /\ alertLog' = Append(alertLog, [key |-> Fingerprint(feed[idx], posts[pidx]),
                                        summary |-> summary, ok |-> ok, cycle |-> cycle])
       /\ seen_posts' = AfterReport(seen_posts, Fingerprint(feed[idx], posts[pidx]), ok)
  /\ pidx' = pidx + 1
  /\ pc' = "post"
  /\ UNCHANGED <<pure, creds, upstream, cycle, feed, idx, posts, summary,
                 gateLog, groqLog, fetchLog, pre>>

\* main: time.sleep(CHECK_INTERVAL), then the next check_feed
Sleep ==
  /\ pc = "sleep"
  /\ pc' = "feed"
  /\ UNCHANGED <<pure, creds, faults, upstream, seen_posts, cycle, locals, history, pre>>

(***************************************************************************)
(* The forum's users: a post is appended to a thread; a thread that gets   *)
(* its first post appears in the feed.  A cycle reads every thread at most *)
(* once, so a post that arrives while a cycle runs is read either by that  *)
(* cycle, as if it had arrived before it, or by the next one, as if it had *)
(* arrived after it: arrivals are placed between two check_feed calls.     *)
(***************************************************************************)
UpstreamNewPost ==
  /\ pc = "feed"
  /\ cycle < MaxCycles
  /\ newPosts < MaxNewPosts
  /\ \E a \in Arrivals :
       /\ threads' = [threads EXCEPT ![a.link] = Append(@, a.cell)]
       /\ listing' = IF a.link \in Range(listing) THEN listing ELSE Append(listing, a.link)
  /\ newPosts' = newPosts + 1
  /\ chg' = chg \cup {cycle}
  /\ UNCHANGED <<pure, creds, faults, seen_posts, pc, cycle, locals, history, pre>>

Next ==
  \/ Main_CheckCreds
  \/ InitialScan_Parse
  \/ InitialScan_Entry
  \/ InitialScan_Done
  \/ CheckFeed_Parse
  \/ CheckFeed_Entry
  \/ CheckFeed_Return
  \/ CheckFeed_Post
  \/ CheckFeed_NextEntry
  \/ AskGroq
  \/ SendDiscordReport
  \/ Sleep
  \/ UpstreamNewPost

Spec == Init /\ [][Next]_vars

(***************************************************************************)
(* scrape_thread on its own: the parsed page is a sequence of table rows,  *)
(* a row a sequence of td elements, a td its class and its text nodes in   *)
(* document order.  The pages are all sequences of at most MaxRows rows    *)
(* drawn from Rows.                                                        *)
(***************************************************************************)
MaxRows == 2

Td(cls, strings) == [cls |-> cls, strings |-> strings]

\* a row of the forum's structured template: the author cell, the message cell
RowMsgAnn == << Td("author", <<<<"a","n","n">>>>), Td("message", <<<<"y","o","u"," ","a","r","e"," ","a","n"," ","A","s","s">>, <<"e","v","e","r","y"," ","s","i","n","g","l","e"," ","d","a","y">>>>) >>
RowMsgBob == << Td("author", <<<<"b","o","b">>>>), Td("message", <<<<"h","a","v","e"," ","a"," ","n","i","c","e"," ","d","a","y">>, <<"a","l","l"," ","o","f"," ","y","o","u"," ","t","h","e","r","e">>>>) >>
\* a row of the legacy template: one cell with the post header and the body
RowPostAnn == << Td("plain", <<<<"P","o","s","t"," ","b","y"," ","a","n","n"," ","o","n"," ","J","a","n"," ","1">>, <<"B","a","c","k"," ","t","o"," ","T","o","p">>, <<" ","y","o","u"," ","a","r","e"," ","a","n"," ","A","s","s"," ">>>>) >>
RowPostBob == << Td("plain", <<<<"P","o","s","t"," ","b","y"," ","b","o","b"," ","o","n"," ","J","a","n"," ","2">>, <<"B","a","c","k"," ","t","o"," ","T","o","p">>, <<"h","a","v","e"," ","a"," ","n","i","c","e"," ","d","a","y">>>>) >>
\* the navigation row
RowNav == << Td("plain", <<<<"H","o","m","e">>, <<"H","e","l","p">>, <<"S","e","a","r","c","h">>>>) >>
\* a legacy cell that holds the "Back to Top" marker twice
RowTwoMarkers == << Td("plain", <<<<"P","o","s","t"," ","b","y"," ","a","n","n"," ","o","n"," ","J","a","n"," ","1">>, <<"B","a","c","k"," ","t","o"," ","T","o","p">>, <<"s","e","e">>, <<"B","a","c","k"," ","t","o"," ","T","o","p">>, <<"y","o","u"," ","a","r","e"," ","a","n"," ","A","s","s">>>>) >>
\* a legacy cell with no "on" after the author
RowNoOn == << Td("plain", <<<<"P","o","s","t"," ","b","y"," ","a","n","n">>, <<"B","a","c","k"," ","t","o"," ","T","o","p">>, <<"h","e","l","l","o"," ","t","h","e","r","e"," ","a","l","l">>>>) >>
\* a legacy cell with nothing after the marker
RowNoBody == << Td("plain", <<<<"P","o","s","t"," ","b","y"," ","a","n","n"," ","o","n"," ","J","a","n"," ","1">>, <<"B","a","c","k"," ","t","o"," ","T","o","p">>>>) >>
\* a legacy cell without the marker
RowNoMarker == << Td("plain", <<<<"P","o","s","t"," ","b","y"," ","b","o","b"," ","o","n"," ","J","a","n"," ","2">>, <<"h","a","v","e"," ","a"," ","n","i","c","e"," ","d","a","y">>>>) >>

Rows == {RowMsgAnn, RowMsgBob, RowPostAnn, RowPostBob, RowNav,
         RowTwoMarkers, RowNoOn, RowNoBody, RowNoMarker}

RECURSIVE Pages(_)
Pages(n) ==
  IF n = 0 THEN {<< >>}
  ELSE Pages(n - 1) \cup {Append(d, r) : d \in {x \in Pages(n - 1) : Len(x) = n - 1}, r \in Rows}

\* td.get_text(separator=" ", strip=True): the stripped, non-empty text
\* nodes joined by one space
RECURSIVE get_text(_)
get_text(strings) ==
  IF strings = << >> THEN << >>
  ELSE LET head == Strip(Head(strings))
           rest == get_text(Tail(strings))
       IN IF head = << >> THEN rest
          ELSE IF rest = << >> THEN head
          ELSE head \o <<" ">> \o rest

\* soup.find_all("td"): every td of the page in document order
RECURSIVE find_all_td(_)
find_all_td(page) ==
  IF page = << >> THEN << >> ELSE Head(page) \o find_all_td(Tail(page))

\* the texts the loop of scrape_thread sees
TdTexts(page) ==
  LET tds == find_all_td(page) IN [i \in 1..Len(tds) |-> get_text(tds[i].strings)]

\* the main loop's variables while a function is exercised on its own
MainIdle ==
  /\ creds = [webhook |-> TRUE, key |-> TRUE]
  /\ listing = << >> /\ threads = [t \in Links |-> << >>]
  /\ newPosts = 0 /\ faults = 0 /\ seen_posts = {}
  /\ cycle = 0 /\ feed = << >> /\ idx = 1 /\ posts = << >> /\ pidx = 1
  /\ summary = << >>
  /\ gateLog = << >> /\ groqLog = << >> /\ alertLog = << >> /\ fetchLog = << >>
  /\ pre = [listing |-> listing, threads |-> threads]
  /\ chg = {}

InitExtract ==
  /\ MainIdle
  /\ pc = "scrape"
  /\ soup \in Pages(MaxRows)
  /\ scraped = << >>
  /\ input_text = << >>
  /\ verdict = FALSE

\* scrape_thread after a successful fetch
ScrapePage ==
  /\ pc = "scrape"
  /\ scraped' = ExtractPosts(TdTexts(soup))
  /\ pc' = "scraped"
  /\ UNCHANGED <<soup, input_text, verdict, creds, faults, upstream, seen_posts, cycle,
                 locals, history, pre>>

NextExtract == ScrapePage

SpecExtract == InitExtract /\ [][NextExtract]_vars

(***************************************************************************)
(* contains_profanity on its own: the texts are all strings of at most     *)
(* MaxTextLen characters over Letters, and a few sentences.                *)
(***************************************************************************)
MaxTextLen == 4

Letters == {"a", "s", "A", "S", "x"}

Sentences == { <<"I"," ","h","a","v","e"," ","a","n"," ","a","s","s","i","g","n","m","e","n","t">>,
               <<"D","A","M","N"," ","i","t">>,
               <<"h","a","v","e"," ","a"," ","n","i","c","e"," ","d","a","y">> }

RECURSIVE Strings(_)
Strings(n) ==
  IF n = 0 THEN {<< >>}
  ELSE Strings(n - 1) \cup {Append(t, c) : t \in {x \in Strings(n - 1) : Len(x) = n - 1}, c \in Letters}

InitFilter ==
  /\ MainIdle
  /\ pc = "filter"
  /\ input_text \in Strings(MaxTextLen) \cup Sentences
  /\ verdict = FALSE
  /\ soup = << >>
  /\ scraped = << >>

FilterText ==
  /\ pc = "filter"
  /\ verdict' = contains_profanity(input_text)
  /\ pc' = "filtered"
  /\ UNCHANGED <<soup, scraped, input_text, creds, faults, upstream, seen_posts, cycle,
                 locals, history, pre>>

NextFilter == FilterText

SpecFilter == InitFilter /\ [][NextFilter]_vars

(***************************************************************************)
(* Reading the history.                                                    *)
(***************************************************************************)
Count(log, K, c) == Cardinality({i \in 1..Len(log) : log[i].key = K /\ log[i].cycle = c})
CountKey(log, K) == Cardinality({i \in 1..Len(log) : log[i].key = K})
NewFlagged(K, c) ==
  Cardinality({i \in 1..Len(gateLog) :
                 /\ gateLog[i].key = K /\ gateLog[i].cycle = c
                 /\ gateLog[i].new /\ gateLog[i].flagged})
TestedKeys == {gateLog[i].key : i \in 1..Len(gateLog)}
Cycles == 1..MaxCycles

\* the post whose escalation is in progress
Current == Fingerprint(feed[idx], posts[pidx])
Pending(K, c, at) == IF pc \in at /\ cycle = c /\ Current = K THEN 1 ELSE 0

(***************************************************************************)
(* C1: over the whole run the novelty test answers "new" at most once per  *)
(* key: once a key has been tested (or recorded by the initial scan) it is *)
(* in seen_posts, and every later test of it answers "already seen"; a     *)
(* test answers "new" exactly when the key was absent from seen_posts.     *)
(***************************************************************************)
C1_NewAtMostOnce ==
  /\ \A i, j \in 1..Len(gateLog) :
       (i < j /\ gateLog[i].key = gateLog[j].key) => ~gateLog[j].new
  /\ \A i \in 1..Len(gateLog) :
       /\ gateLog[i].key \in seen_posts
       /\ gateLog[i].new <=> ~gateLog[i].had

\* a key answered "new" in one cycle and "already seen" in a later one
C1_Witness ==
  \E i, j \in 1..Len(gateLog) :
    /\ i < j /\ gateLog[i].key = gateLog[j].key
    /\ gateLog[i].new /\ ~gateLog[j].new
    /\ gateLog[i].cycle < gateLog[j].cycle

(***************************************************************************)
(* C2: in every cycle, a post that is new and flagged gets exactly one     *)
(* ask_groq call and exactly one send_discord_report call; a post that is  *)
(* new and not flagged gets neither and is marked seen; a post already     *)
(* seen gets neither, flagged or not.  Per key and cycle the calls made    *)
(* are as many as the new flagged tests, less the one still in progress.   *)
(***************************************************************************)
C2_OneCallPerNewFlagged ==
  \A K \in TestedKeys : \A c \in Cycles :
    /\ Count(groqLog, K, c) = NewFlagged(K, c) - Pending(K, c, {"groq"})
    /\ Count(alertLog, K, c) = NewFlagged(K, c) - Pending(K, c, {"groq", "discord"})
    /\ K \in seen_posts

\* all three cases have happened and the cycle is over: a new flagged post
\* with its two calls, a new unflagged post, a seen flagged post
C2_Witness ==
  /\ pc = "sleep"
  /\ \E i \in 1..Len(gateLog) :
       /\ gateLog[i].new /\ gateLog[i].flagged
       /\ Count(groqLog, gateLog[i].key, gateLog[i].cycle) = 1
       /\ Count(alertLog, gateLog[i].key, gateLog[i].cycle) = 1
  /\ \E i \in 1..Len(gateLog) : gateLog[i].new /\ ~gateLog[i].flagged
  /\ \E i \in 1..Len(gateLog) : ~gateLog[i].new /\ gateLog[i].flagged

(***************************************************************************)
(* The forum as it was at process start.                                   *)
(***************************************************************************)
KeysOf(link, ps) == {Fingerprint(link, ps[i]) : i \in 1..Len(ps)}
PrePosts(link) == ExtractPosts(Page(pre.threads[link]))
PreLinks == Range(pre.listing)
PreKeys == UNION {KeysOf(l, PrePosts(l)) : l \in PreLinks}

RECURSIVE SumPosts(_)
SumPosts(links) ==
  IF links = << >> THEN 0 ELSE Len(PrePosts(Head(links))) + SumPosts(Tail(links))

\* N, the number of posts the listed threads hold at process start
PreCount == SumPosts(pre.listing)

\* the threads the initial scan fetched and parsed
ScanFetched ==
  {fetchLog[i].what : i \in {k \in 1..Len(fetchLog) :
      /\ fetchLog[k].cycle = 0 /\ fetchLog[k].what \in Links
      /\ fetchLog[k].ok /\ fetchLog[k].parsed}}

ScanEnd == pc = "feed" /\ cycle = 0
NoCallsYet == groqLog = << >> /\ alertLog = << >>

(***************************************************************************)
(* C3 as claimed: when the initial scan ends seen_posts holds exactly N    *)
(* keys for the N posts upstream, and the scan made no ask_groq or         *)
(* send_discord_report call.                                               *)
(***************************************************************************)
C3_ExactlyNKeys ==
  /\ cycle = 0 => NoCallsYet
  /\ ScanEnd => Cardinality(seen_posts) = PreCount

(***************************************************************************)
(* C3 amended: when the initial scan ends seen_posts holds exactly the     *)
(* distinct fingerprints of the posts of the listed threads it fetched and *)
(* parsed: never more than N keys, and N keys when                         *)
(* every listed thread was fetched and no two posts share a fingerprint.   *)
(* The scan makes no novelty test, no ask_groq and no report call.         *)
(***************************************************************************)
C3_ScanRecordsFetchedKeys ==
  /\ cycle = 0 => NoCallsYet /\ gateLog = << >>
  /\ ScanEnd =>
       /\ seen_posts = UNION {KeysOf(l, PrePosts(l)) : l \in ScanFetched}
       /\ Cardinality(seen_posts) <= PreCount
       /\ (ScanFetched = PreLinks /\ Cardinality(PreKeys) = PreCount)
            => Cardinality(seen_posts) = PreCount

\* the scan fetched every thread, yet two of the three posts share a key
C3_Witness ==
  /\ ScanEnd
  /\ ScanFetched = PreLinks
  /\ PreCount = 3
  /\ Cardinality(seen_posts) = 2

(***************************************************************************)
(* C4 as claimed: a post that was upstream when the process started is     *)
(* never escalated: no ask_groq call and no report is ever made for the    *)
(* fingerprint of such a post.                                             *)
(***************************************************************************)
C4_OldPostsNeverEscalated ==
  /\ \A i \in 1..Len(groqLog) : groqLog[i].key \notin PreKeys
  /\ \A i \in 1..Len(alertLog) : alertLog[i].key \notin PreKeys

(***************************************************************************)
(* C5 as claimed: when the upstream did not change between two consecutive *)
(* cycles, the second one makes no ask_groq call and no report.            *)
(***************************************************************************)
NoCallsIn(c) ==
  /\ \A i \in 1..Len(groqLog) : groqLog[i].cycle # c
  /\ \A i \in 1..Len(alertLog) : alertLog[i].cycle # c

\* the feed parse and every thread fetch of cycle k succeeded
CleanCycle(k) == \A i \in 1..Len(fetchLog) : fetchLog[i].cycle = k => fetchLog[i].ok

C5_SecondCycleSilent ==
  \A c \in 2..cycle : (c - 1) \notin chg => NoCallsIn(c)

(***************************************************************************)
(* C5 amended: when the upstream did not change between two consecutive    *)
(* cycles and the first one parsed the feed and fetched every listed       *)
(* thread successfully, the second one makes no ask_groq call and no       *)
(* report.                                                                 *)
(***************************************************************************)
C5_SecondCycleSilentAfterCleanCycle ==
  \A c \in 2..cycle : ((c - 1) \notin chg /\ CleanCycle(c - 1)) => NoCallsIn(c)

\* a clean first cycle escalated a post, and the second cycle, over the same
\* upstream, has tested that flagged post again and is over
C5_Witness ==
  /\ cycle = 2 /\ pc = "sleep"
  /\ 1 \notin chg /\ CleanCycle(1)
  /\ \E i \in 1..Len(alertLog) : alertLog[i].cycle = 1
  /\ \E i \in 1..Len(gateLog) : gateLog[i].cycle = 2 /\ gateLog[i].flagged

(***************************************************************************)
(* C6: seen_posts only grows: no step removes a key, and the novelty test  *)
(* answers "new" exactly when the key is not in seen_posts.                *)
(***************************************************************************)
LastOf(log) == log[Len(log)]
Grew(log) == Len(log') = Len(log) + 1

C6_SeenOnlyGrows ==
  [][ /\ seen_posts \subseteq seen_posts'
      /\ Grew(gateLog) => (LastOf(gateLog').new <=> LastOf(gateLog').key \notin seen_posts)
    ]_vars

\* the scan and check_feed both added keys, a seen key was tested, a call failed
C6_Witness ==
  /\ faults > 0
  /\ seen_posts \cap PreKeys # {}
  /\ \E i \in 1..Len(gateLog) : gateLog[i].new /\ gateLog[i].key \notin PreKeys
  /\ \E i \in 1..Len(gateLog) : ~gateLog[i].new

(***************************************************************************)
(* C7: a failed report leaves seen_posts as it was, with the post's key in *)
(* it, and check_feed goes on with the next post; no key ever gets a       *)
(* second report attempt.                                                  *)
(***************************************************************************)
ReportFailed == pc = "discord" /\ Grew(alertLog) /\ ~LastOf(alertLog').ok

C7_FailedReportNotRetried ==
  /\ [][ ReportFailed =>
           /\ seen_posts' = seen_posts
           /\ LastOf(alertLog').key \in seen_posts'
           /\ pc' = "post" /\ pidx' = pidx + 1
           /\ feed' = feed /\ idx' = idx /\ posts' = posts
       ]_vars
  /\ [](\A i, j \in 1..Len(alertLog) : alertLog[i].key = alertLog[j].key => i = j)

\* the report of cycle 1 failed; cycle 2 tested the post again and is over
C7_Witness ==
  /\ cycle = 2 /\ pc = "sleep"
  /\ \E i \in 1..Len(alertLog) :
       /\ ~alertLog[i].ok /\ alertLog[i].cycle = 1
       /\ \E j \in 1..Len(gateLog) :
            gateLog[j].key = alertLog[i].key /\ gateLog[j].cycle = 2 /\ ~gateLog[j].new

(***************************************************************************)
(* C8: a failed ask_groq does not end the cycle: the report for that post  *)
(* is still sent, once, with the error placeholder as the assessment, and  *)
(* ask_groq is not called again for the post.                              *)
(***************************************************************************)
C8_GroqFailureStillReports ==
  \A i \in 1..Len(groqLog) :
    LET g == groqLog[i]
        text == IF g.ok THEN GroqVerdict ELSE GroqError
    IN /\ CountKey(groqLog, g.key) = 1
       /\ IF pc = "discord" /\ i = Len(groqLog)
            THEN Current = g.key /\ cycle = g.cycle /\ summary = text
                 /\ CountKey(alertLog, g.key) = 0
            ELSE /\ CountKey(alertLog, g.key) = 1
                 /\ \E j \in 1..Len(alertLog) :
                      /\ alertLog[j].key = g.key
                      /\ alertLog[j].cycle = g.cycle
                      /\ alertLog[j].summary = text

\* ask_groq failed, the report carrying the placeholder went out, cycle over
C8_Witness ==
  /\ pc = "sleep"
  /\ \E i \in 1..Len(groqLog) : ~groqLog[i].ok
  /\ \E j \in 1..Len(alertLog) : alertLog[j].summary = GroqError /\ alertLog[j].ok

(***************************************************************************)
(* Reading the fetch history of a cycle.                                   *)
(***************************************************************************)
Fetches(l, c) ==
  {i \in 1..Len(fetchLog) : fetchLog[i].what = l /\ fetchLog[i].cycle = c}
FetchedOk(l, c) == \E i \in Fetches(l, c) : fetchLog[i].ok
FetchFailed(l, c) == \E i \in Fetches(l, c) : ~fetchLog[i].ok
ThreadFetchesIn(c) ==
  {i \in 1..Len(fetchLog) : fetchLog[i].what \in Links /\ fetchLog[i].cycle = c}
TestsIn(c) == {i \in 1..Len(gateLog) : gateLog[i].cycle = c}

\* the posts of thread l as the current cycle read them
PostsOf(l) == ExtractPosts(Page(threads[l]))

(***************************************************************************)
(* C9: a failed thread fetch in check_feed yields no posts and adds no key *)
(* of that thread; the cycle still fetches every other entry of the feed,  *)
(* records the posts of each thread it could fetch and reports each new    *)
(* flagged one.                                                            *)
(***************************************************************************)
ThreadFetchFailed == pc = "entry" /\ Grew(fetchLog) /\ ~LastOf(fetchLog').ok

C9_CycleDone ==
  pc = "sleep" =>
    \A k \in 1..Len(feed) :
      LET l == feed[k]
      IN /\ Cardinality(Fetches(l, cycle)) = 1
         /\ FetchFailed(l, cycle) =>
              \A i \in TestsIn(cycle) : gateLog[i].key[1] # l
         /\ FetchedOk(l, cycle) =>
              \A K \in KeysOf(l, PostsOf(l)) :
                /\ K \in seen_posts
                /\ \E i \in TestsIn(cycle) : gateLog[i].key = K
                /\ Count(alertLog, K, cycle) = NewFlagged(K, cycle)

C9_FailedThreadIsSkipped ==
  /\ [][ ThreadFetchFailed =>
           /\ posts' = << >>
           /\ seen_posts' = seen_posts
           /\ pc' = "post" /\ feed' = feed /\ idx' = idx
       ]_vars
  /\ []C9_CycleDone

\* one thread could not be fetched, a new flagged post of another thread was
\* reported in the same cycle
C9_Witness ==
  /\ pc = "sleep"
  /\ \E l \in Range(feed) :
       /\ FetchFailed(l, cycle)
       /\ threads[l] # << >>
       /\ \E j \in 1..Len(alertLog) :
            alertLog[j].cycle = cycle /\ alertLog[j].key[1] # l

(***************************************************************************)
(* C10: a failed feed parse in check_feed ends that cycle only: the cycle  *)
(* fetches no thread, tests no post, makes no ask_groq or report call and  *)
(* leaves seen_posts alone; after the sleep the next check_feed starts and *)
(* works through the whole listing.                                        *)
(***************************************************************************)
ParseFailed == pc = "feed" /\ Grew(fetchLog) /\ ~LastOf(fetchLog').ok

C10_FailedCycleIsSilent ==
  \A c \in 1..cycle :
    FetchFailed("feed", c) =>
      /\ ThreadFetchesIn(c) = {}
      /\ TestsIn(c) = {}
      /\ NoCallsIn(c)

C10_NextCycleIsWhole ==
  (pc = "sleep" /\ cycle > 1 /\ FetchFailed("feed", cycle - 1) /\ FetchedOk("feed", cycle)) =>
    /\ feed = listing
    /\ \A l \in Range(listing) : Cardinality(Fetches(l, cycle)) = 1

C10_FailedParseEndsOnlyTheCycle ==
  /\ [][ ParseFailed =>
           /\ seen_posts' = seen_posts
           /\ feed' = << >>
           /\ pc' \in {"sleep", "entry"}
       ]_vars
  /\ [][ (pc = "sleep" /\ pc' # pc) => (pc' = "feed" /\ seen_posts' = seen_posts) ]_vars
  /\ [][ (pc = "entry" /\ feed = << >> /\ pc' # pc) => pc' = "sleep" ]_vars
  /\ []C10_FailedCycleIsSilent
  /\ []C10_NextCycleIsWhole

\* the parse of cycle 1 failed; cycle 2 parsed the feed and reported a post
C10_Witness ==
  /\ pc = "sleep" /\ cycle = 2
  /\ FetchFailed("feed", 1)
  /\ FetchedOk("feed", 2)
  /\ listing # << >>
  /\ \E j \in 1..Len(alertLog) : alertLog[j].cycle = 2

(***************************************************************************)
(* C11 as claimed: once polling has begun the process has no terminal      *)
(* state and no scrape_thread call of a cycle raises, so that check_feed   *)
(* always reaches its end and main sleeps and starts another cycle.        *)
(***************************************************************************)
\* the i-th logged call was a scrape_thread call that raised
ScrapeRaised(i) ==
  fetchLog[i].what \in Links /\ fetchLog[i].ok /\ ~fetchLog[i].parsed

Polling == cycle >= 1

C11_NoTerminalStateOncePolling ==
  /\ \A i \in 1..Len(fetchLog) : fetchLog[i].cycle >= 1 => ~ScrapeRaised(i)
  /\ Polling => pc \notin {"crashed", "halted"}

(***************************************************************************)
(* C12 as claimed: with a credential missing main halts before the initial *)
(* scan: no feed parse, no thread fetch, no change to seen_posts, no       *)
(* novelty test, no ask_groq call and no report ever happens; and a        *)
(* missing credential is the only thing that ends the process.             *)
(***************************************************************************)
Stopped == pc \in {"halted", "crashed"}

C12_OnlyMissingCredentialStops ==
  /\ ~CredsOk(creds) =>
        /\ pc \in {"start", "halted"}
        /\ fetchLog = << >> /\ gateLog = << >> /\ NoCallsYet
        /\ seen_posts = {}
  /\ Stopped => ~CredsOk(creds)

(***************************************************************************)
(* C13 as claimed: the extractor tries the structured strategy first, then *)
(* the legacy one: a page with two well-formed structured post rows yields *)
(* exactly two posts, each author paired with its own content; a page that *)
(* matches only the legacy "Post by" pattern yields one post per legacy    *)
(* cell; a page that matches neither yields no post.                       *)
(***************************************************************************)
HasCell(row, cls) == \E i \in 1..Len(row) : row[i].cls = cls
CellOf(row, cls) == row[CHOOSE i \in 1..Len(row) : row[i].cls = cls]

\* a well-formed structured post row: an author cell and a message cell
IsStructuredRow(row) == HasCell(row, "author") /\ HasCell(row, "message")

\* the post the structured strategy derives from such a row
StructuredPost(row) ==
  [author |-> get_text(CellOf(row, "author").strings),
   content |-> get_text(CellOf(row, "message").strings)]

StructuredRows(page) == SelectSeq(page, IsStructuredRow)

\* a td text that matches the legacy pattern and has a body
IsLegacyText(t) ==
  /\ Len(t) >= MinCellLen
  /\ Contains(PostBy, t)
  /\ (Contains(BackToTop, t) =>
        Strip(SubSeq(t, FindFrom(BackToTop, t, 1) + Len(BackToTop), Len(t))) # << >>)

LegacyCount(page) ==
  Cardinality({i \in 1..Len(TdTexts(page)) : IsLegacyText(TdTexts(page)[i])})

Scraped == pc = "scraped"

C13_StrategiesInPriorityOrder ==
  Scraped =>
    LET rows == StructuredRows(soup)
    IN /\ Len(rows) = 2 =>
            scraped = <<StructuredPost(rows[1]), StructuredPost(rows[2])>>
       /\ (rows = << >> /\ LegacyCount(soup) > 0) => Len(scraped) = LegacyCount(soup)
       /\ (rows = << >> /\ LegacyCount(soup) = 0) => scraped = << >>

(***************************************************************************)
(* C14: contains_profanity(T) is true exactly when some word of            *)
(* PROFANITY_LIST occurs in T at some position, letter case ignored and    *)
(* with no regard to word boundaries; "I have an assignment" is flagged.   *)
(***************************************************************************)
\* the same character, or the upper and the lower case of one letter
SameLetter(c, d) ==
  c = d \/ \E k \in 1..Len(Upper) : {c, d} = {Upper[k], Lower[k]}

WordAt(word, t, i) ==
  /\ i + Len(word) - 1 <= Len(t)
  /\ \A j \in 1..Len(word) : SameLetter(t[i + j - 1], word[j])

OccursIgnoringCase(word, t) == \E i \in 1..Len(t) : WordAt(word, t, i)

Filtered == pc = "filtered"

C14_FlaggedIffWordOccurs ==
  Filtered =>
    /\ verdict <=> \E w \in 1..Len(PROFANITY_LIST) :
                     OccursIgnoringCase(PROFANITY_LIST[w], input_text)
    /\ input_text = <<"I"," ","h","a","v","e"," ","a","n"," ","a","s","s","i","g","n","m","e","n","t">> => verdict

\* flagged inside a longer word, and flagged in another letter case
C14_Witness ==
  /\ Filtered /\ verdict
  /\ input_text \in {<<"I"," ","h","a","v","e"," ","a","n"," ","a","s","s","i","g","n","m","e","n","t">>, <<"x","A","s","S">>}

(***************************************************************************)
(* C15 as claimed: a reply added to a thread whose earlier posts are in    *)
(* seen_posts is tested as new on its own key in the first cycle that      *)
(* lists the thread and fetches it, and if it is flagged it is reported in *)
(* that cycle: when a cycle that fetched the thread is over, every reply   *)
(* of the thread has been found new once, and every flagged one reported.  *)
(***************************************************************************)
\* the post scrape_thread extracts from the cell c
PostOfCell(c) == ExtractPosts(<<CellText(c)>>)[1]

\* the positions in thread l of the replies added since the process started
Replies(l) == (Len(pre.threads[l]) + 1)..Len(threads[l])

FoundNew(K) == \E i \in 1..Len(gateLog) : gateLog[i].key = K /\ gateLog[i].new
Reported(K) == \E i \in 1..Len(alertLog) : alertLog[i].key = K

C15_NewReplyIsEvaluated ==
  pc = "sleep" =>
    \A l \in Range(feed) : (l \in ScanFetched /\ FetchedOk(l, cycle)) =>
      \A i \in Replies(l) :
        LET reply == PostOfCell(threads[l][i])
            K == Fingerprint(l, reply)
        IN /\ FoundNew(K)
           /\ contains_profanity(reply.content) => Reported(K)

(***************************************************************************)
(* C16 as claimed: two different posts (different thread, author or        *)
(* content) never share a key, so marking one as seen never makes the      *)
(* other be treated as seen; and every distinct flagged post that was not  *)
(* upstream at process start and that a cycle extracted is escalated by    *)
(* the end of that cycle.                                                  *)
(***************************************************************************)
\* the posts upstream, each with its thread
UpstreamPosts ==
  UNION {{[link |-> l, author |-> p.author, content |-> p.content] : p \in Range(PostsOf(l))}
         : l \in Links}

OldPosts ==
  UNION {{[link |-> l, author |-> p.author, content |-> p.content] : p \in Range(PrePosts(l))}
         : l \in Links}

KeyOf(x) == Fingerprint(x.link, [author |-> x.author, content |-> x.content])

C16_DistinctPostsTrackedIndependently ==
  /\ \A x, y \in UpstreamPosts :
        x # y => ~IsSeen(KeyOf(y), MarkSeen({}, KeyOf(x)))
  /\ pc = "sleep" =>
        \A x \in UpstreamPosts \ OldPosts :
          (FetchedOk(x.link, cycle) /\ contains_profanity(x.content)) => Reported(KeyOf(x))

(***************************************************************************)
(* C17 as claimed: every table cell of at least 20 characters that holds   *)
(* "Post by" gives a post whose content is everything after the "Back to   *)
(* Top" marker (after its first or after its last occurrence when there    *)
(* are several), or the whole cell text when the marker is absent, and     *)
(* whose author is the text between "Post by" and the next "on", or        *)
(* "Unknown" when there is no such text.                                   *)
(***************************************************************************)
\* t from the end of the first occurrence of sep on
AfterFirst(t, sep) == SubSeq(t, FindFrom(sep, t, 1) + Len(sep), Len(t))

\* t from the end of the last occurrence of sep on
AfterLast(t, sep) ==
  LET last == CHOOSE i \in 1..Len(t) :
                OccursAt(sep, t, i) /\ \A k \in (i + 1)..Len(t) : ~OccursAt(sep, t, k)
  IN SubSeq(t, last + Len(sep), Len(t))

ClaimedContents(t) ==
  IF Contains(BackToTop, t)
    THEN {Strip(AfterFirst(t, BackToTop)), Strip(AfterLast(t, BackToTop))}
    ELSE {t}

ClaimedAuthor(t) ==
  LET after == AfterFirst(t, PostBy)
      on == FindFrom(On, after, 1)
  IN IF on = 0 THEN Unknown ELSE Strip(SubSeq(after, 1, on - 1))

LegacyTexts(page) == SelectSeq(TdTexts(page), IsLegacyText)

C17_LegacyContentAndAuthor ==
  Scraped =>
    LET ts == LegacyTexts(soup)
    IN /\ Len(scraped) = Len(ts)
       /\ \A i \in 1..Len(ts) :
            /\ scraped[i].content \in ClaimedContents(ts[i])
            /\ scraped[i].author = ClaimedAuthor(ts[i])

(***************************************************************************)
(* C18: the initial scan and check_feed key a post the same way: for every *)
(* post scrape_thread has returned, to the scan or to check_feed, the      *)
(* fingerprint the scan builds equals the fingerprint check_feed builds,   *)
(* and when a cycle is over (or cut short) every test check_feed has made  *)
(* of a post the scan recorded has answered "already seen".                *)
(***************************************************************************)
\* the fingerprints check_feed builds for the posts the scan recorded
ScanRecorded == UNION {KeysOf(l, PrePosts(l)) : l \in ScanFetched}

C18_ScanKeyIsCheckFeedKey ==
  /\ \A l \in Links : \A i \in 1..Len(posts) :
        ScanFingerprint(l, posts[i]) = Fingerprint(l, posts[i])
  /\ pc \in {"sleep", "crashed"} =>
        LET recorded == ScanRecorded
        IN \A i \in 1..Len(gateLog) :
             gateLog[i].key \in recorded => gateLog[i].had /\ ~gateLog[i].new

\* a post longer than the snippet was recorded by the scan, and two later
\* cycles have extracted it and found it seen
C18_Witness ==
  /\ pc = "sleep" /\ cycle = 2
  /\ \E K \in ScanRecorded :
        /\ \E l \in Links : \E p \in Range(PrePosts(l)) :
              K = Fingerprint(l, p) /\ Len(p.content) > SnippetLen
        /\ \E i, j \in 1..Len(gateLog) :
              /\ gateLog[i].key = K /\ gateLog[i].cycle = 1 /\ ~gateLog[i].new
              /\ gateLog[j].key = K /\ gateLog[j].cycle = 2 /\ ~gateLog[j].new

(***************************************************************************)
(* C19: a post's key is in seen_posts before its ask_groq call and its     *)
(* report begin: while either call is pending the key of the post is in    *)
(* seen_posts, every call made so far was for a key in seen_posts, and     *)
(* there are never more report attempts than keys in seen_posts.           *)
(***************************************************************************)
Escalating == pc \in {"groq", "discord"}

C19_SeenBeforeEscalation ==
  /\ Escalating => Current \in seen_posts
  /\ \A i \in 1..Len(groqLog) : groqLog[i].key \in seen_posts
  /\ \A i \in 1..Len(alertLog) : alertLog[i].key \in seen_posts
  /\ Len(alertLog) <= Cardinality(seen_posts)

\* a second escalation is under way, its ask_groq call not yet made, after a
\* first one whose report was attempted
C19_Witness ==
  /\ pc = "groq"
  /\ Len(alertLog) = 1 /\ Len(groqLog) = 1
  /\ Current \in seen_posts /\ Current # alertLog[1].key
  /\ Cardinality(seen_posts) >= 2

(***************************************************************************)
(* C20: the steps for a new flagged post are strictly ordered and not      *)
(* interleaved with another post's: the i-th report is for the post of the *)
(* i-th ask_groq call and carries what that call returned; while a report  *)
(* is pending exactly one ask_groq call has no report yet, it is the call  *)
(* for the current post and the last novelty test was the current post's;  *)
(* at every other point, so at every novelty test and at every cycle       *)
(* boundary, the ask_groq calls and the report attempts are equal in       *)
(* number.                                                                 *)
(***************************************************************************)
NewFlaggedTests ==
  Cardinality({i \in 1..Len(gateLog) : gateLog[i].new /\ gateLog[i].flagged})

CurrentWasLastTested ==
  /\ gateLog # << >>
  /\ LastOf(gateLog).key = Current /\ LastOf(gateLog).cycle = cycle
  /\ LastOf(gateLog).new /\ LastOf(gateLog).flagged

C20_StepsStrictlyOrdered ==
  /\ \A i \in 1..Len(alertLog) :
        /\ i <= Len(groqLog)
        /\ alertLog[i].key = groqLog[i].key /\ alertLog[i].cycle = groqLog[i].cycle
        /\ alertLog[i].summary = (IF groqLog[i].ok THEN GroqVerdict ELSE GroqError)
  /\ pc = "groq" =>
        /\ Len(groqLog) = Len(alertLog) /\ NewFlaggedTests = Len(groqLog) + 1
        /\ CurrentWasLastTested
  /\ pc = "discord" =>
        /\ Len(groqLog) = Len(alertLog) + 1 /\ NewFlaggedTests = Len(groqLog)
        /\ LastOf(groqLog).key = Current /\ LastOf(groqLog).cycle = cycle
        /\ summary = (IF LastOf(groqLog).ok THEN GroqVerdict ELSE GroqError)
        /\ CurrentWasLastTested
  /\ ~Escalating =>
        Len(groqLog) = Len(alertLog) /\ NewFlaggedTests = Len(alertLog)

\* one cycle escalated two posts one after the other and is over
C20_Witness ==
  /\ pc = "sleep"
  /\ Len(alertLog) = 2 /\ Len(groqLog) = 2
  /\ alertLog[1].cycle = cycle /\ alertLog[2].cycle = cycle
  /\ alertLog[1].key # alertLog[2].key

====
